---- MODULE Spec2Model ----
(***************************************************************************)
(* space_heater.c: one spinning worker thread per online processor, a      *)
(* process-wide stop flag written by the signal / console-control handler, *)
(* and a supervisor (main) that sizes, spawns, announces, joins, releases. *)
(* The file holds two implementations selected by the preprocessor; the    *)
(* variable `platform` says which one a behaviour runs.                    *)
(***************************************************************************)
EXTENDS Integers, Sequences, FiniteSets, TLC

(* ------------------------------ bounds -------------------------------- *)

\* Pools of up to MaxThreads workers are explored under every interleaving
\* of worker steps and signal deliveries.
MaxThreads == 2

\* Number of stop-signal deliveries in one run.
MaxSignals == 3

(* ------------------------- program constants -------------------------- *)

EXIT_SUCCESS == 0
EXIT_FAILURE == 1

SIGINT  == 2
SIGTERM == 15

CTRL_C_EVENT     == 0
CTRL_CLOSE_EVENT == 2

\* Largest handle count one WaitForMultipleObjects call accepts.
MAXIMUM_WAIT_OBJECTS == 64

\* CHAR messageBuffer[128]
ARRAYSIZE_messageBuffer == 128

(* ------------------------------- state -------------------------------- *)

VARIABLES
    platform,    \* "posix" or "windows": which #if branch was compiled
    cpus,        \* what the CPU-count probe of this host answers
    numThreads,  \* main's numThreads (0 until the probe has run)
    pc,          \* main's position
    i,           \* main's loop index
    heap,        \* the handle sequence: "none", "allocated", "freed"
    nfree,       \* number of free / HeapFree calls on the handle sequence
    threads,     \* slot -> "none" | "spin" | "returned" (<<>> before malloc)
    joined,      \* slot -> number of completed joins / satisfied waits
    stop,        \* static volatile int stop
    handled,     \* signals whose handler registration succeeded
    regFailed,   \* signals whose handler registration failed
    nsig,        \* stop signals delivered so far
    frames,      \* handler invocations in progress, in delivery order
    out,         \* lines written to standard output
    err,         \* lines written to standard error
    dbg,         \* lines written to the OS debug sink
    exited,      \* the process has terminated
    status       \* its exit status (meaningful once exited)

vars == << platform, cpus, numThreads, pc, i, heap, nfree, threads, joined,
           stop, handled, regFailed, nsig, frames, out, err, dbg, exited,
           status >>

MainThread == -1
OwnThread  == -2

\* Values the CPU-count probe may answer: failure values, every small pool,
\* and one pool larger than a single multi-object wait accepts.
ProbeValues == (-1 .. MaxThreads) \cup {MAXIMUM_WAIT_OBJECTS + 1}

Slots == DOMAIN threads

Line(k, n) == [kind |-> k, n |-> n]

\* The state of worker w; a slot that does not exist holds no thread.
Worker(w) == IF w \in Slots THEN threads[w] ELSE "none"

(* ------------------------------ helpers ------------------------------- *)

\* Number of decimal digits printf's %d / %lu produces for n >= 0.
RECURSIVE Digits(_)
Digits(n) == IF n < 10 THEN 1 ELSE 1 + Digits(n \div 10)

\* StringCchPrintfA(messageBuffer, ARRAYSIZE(messageBuffer), fmt, n) is S_OK
\* iff the formatted text and its terminator fit the buffer; fixed is the
\* length of the format without its conversion.
StringCchPrintfA_OK(fixed, n) == fixed + Digits(n) < ARRAYSIZE_messageBuffer

\* Handler invocations in progress on thread t (indices into frames).
FramesOn(t) == { k \in 1..Len(frames) : frames[k].thread = t }

\* A thread running a signal handler does not run its own code.
Suspended(t) == FramesOn(t) # {}

\* Invocation k is the innermost one on its thread (or has a thread of its
\* own), so it is the one that runs.
Innermost(k) ==
    \/ frames[k].thread = OwnThread
    \/ \A j \in FramesOn(frames[k].thread) : j <= k

\* sig is blocked on thread t while t runs the handler of sig.
Blocked(sig, t) == \E k \in FramesOn(t) : frames[k].sig = sig

\* A new invocation f goes on top of the invocations its thread is already
\* running; the invocations are kept grouped by thread, those of one thread
\* in the order they were entered.
Push(s, f) ==
    LET n == Cardinality({ k \in 1..Len(s) : s[k].thread <= f.thread })
    IN  [ j \in 1..(Len(s) + 1) |->
            IF j <= n THEN s[j] ELSE IF j = n + 1 THEN f ELSE s[j - 1] ]

RemoveAt(s, k) == [ j \in 1..(Len(s) - 1) |-> IF j < k THEN s[j] ELSE s[j + 1] ]

\* Stop signals are explored for the pools of up to MaxThreads workers; the
\* larger pool is followed through the runs in which no signal arrives.
SignalsExplored == cpus <= MaxThreads

MainRuns == ~exited /\ ~Suspended(MainThread)

(* ------------------------------- Init --------------------------------- *)

Init ==
    /\ platform \in {"posix", "windows"}
    /\ cpus \in ProbeValues
    /\ numThreads = 0
    /\ pc = IF platform = "posix" THEN "sysconf" ELSE "get_stdout"
    /\ i = 0
    /\ heap = "none"
    /\ nfree = 0
    /\ threads = << >>
    /\ joined = << >>
    /\ stop = FALSE
    /\ handled = {}
    /\ regFailed = {}
    /\ nsig = 0
    /\ frames = << >>
    /\ out = << >>
    /\ err = << >>
    /\ dbg = << >>
    /\ exited = FALSE
    /\ status = 0


\* The process terminates with exit status code: every thread dies with it.
Exit(code) == exited' = TRUE /\ status' = code

(* --------------------- POSIX implementation: main --------------------- *)

\* const int numThreads = sysconf(_SC_NPROCESSORS_ONLN);
Posix_sysconf ==
    /\ platform = "posix" /\ pc = "sysconf" /\ MainRuns
    /\ numThreads' = cpus
    /\ pc' = "signal_int"
    /\ UNCHANGED << platform, cpus, i, heap, nfree, threads, joined, stop,
                    handled, regFailed, nsig, frames, out, err, dbg, exited,
                    status >>

\* signal(sig, exit_handler); the value signal() returns (SIG_ERR when the
\* registration failed) is discarded and main goes on to `next`.
Posix_signal(sig, here, next) ==
    /\ platform = "posix" /\ pc = here /\ MainRuns
    /\ \E ok \in BOOLEAN :
          IF ok
          THEN handled' = handled \cup {sig} /\ UNCHANGED regFailed
          ELSE regFailed' = regFailed \cup {sig} /\ UNCHANGED handled
    /\ pc' = next
    /\ UNCHANGED << platform, cpus, numThreads, i, heap, nfree, threads,
                    joined, stop, nsig, frames, out, err, dbg, exited,
                    status >>

Posix_signal_SIGINT == Posix_signal(SIGINT, "signal_int", "signal_term")

Posix_signal_SIGTERM == Posix_signal(SIGTERM, "signal_term", "check")

\* Posix_check_count with the test written numThreads < 0: a count of zero
\* passes.
Posix_check_count_negative_only ==
    /\ platform = "posix" /\ pc = "check" /\ MainRuns
    /\ IF numThreads < 0
       THEN /\ err' = Append(err, Line("Error getting the number of processors", 0))
            /\ pc' = "exit"
            /\ Exit(EXIT_FAILURE)
       ELSE /\ pc' = "malloc"
            /\ UNCHANGED << err, exited, status >>
    /\ UNCHANGED << platform, cpus, numThreads, i, heap, nfree, threads,
                    joined, stop, handled, regFailed, nsig, frames, out,
                    dbg >>

\* if (numThreads <= 0) { fprintf(stderr, ...); return EXIT_FAILURE; }
Posix_check_count ==
    /\ platform = "posix" /\ pc = "check" /\ MainRuns
    /\ IF numThreads <= 0
       THEN /\ err' = Append(err, Line("Error getting the number of processors", 0))
            /\ pc' = "exit"
            /\ Exit(EXIT_FAILURE)
       ELSE /\ pc' = "malloc"
            /\ UNCHANGED << err, exited, status >>
    /\ UNCHANGED << platform, cpus, numThreads, i, heap, nfree, threads,
                    joined, stop, handled, regFailed, nsig, frames, out,
                    dbg >>

\* threads = malloc(numThreads * sizeof(pthread_t)); if (threads == NULL) ...
Posix_malloc ==
    /\ platform = "posix" /\ pc = "malloc" /\ MainRuns
    /\ \E ok \in BOOLEAN :
          IF ok
          THEN /\ heap' = "allocated"
               /\ threads' = [ s \in 0..(numThreads - 1) |-> "none" ]
               /\ joined' = [ s \in 0..(numThreads - 1) |-> 0 ]
               /\ pc' = "spawn"
               /\ i' = 0
               /\ UNCHANGED << err, exited, status >>
          ELSE /\ err' = Append(err, Line("Error allocating memory for threads", 0))
               /\ pc' = "exit"
               /\ Exit(EXIT_FAILURE)
               /\ UNCHANGED << heap, threads, joined, i >>
    /\ UNCHANGED << platform, cpus, numThreads, nfree, stop, handled,
                    regFailed, nsig, frames, out, dbg >>

\* Posix_pthread_create whose failure branch also sets the flag, to stop the
\* workers it leaves behind, before returning.
Posix_pthread_create_sets_stop ==
    /\ platform = "posix" /\ pc = "spawn" /\ i < numThreads /\ MainRuns
    /\ \E ok \in BOOLEAN :
          IF ok
          THEN /\ threads' = [ threads EXCEPT ![i] = "spin" ]
               /\ i' = i + 1
               /\ pc' = IF i + 1 < numThreads THEN "spawn" ELSE "announce"
               /\ UNCHANGED << err, heap, nfree, stop, exited, status >>
          ELSE /\ err' = Append(err, Line("Error creating thread", i))
               /\ heap' = "freed"
               /\ nfree' = nfree + 1
               /\ stop' = TRUE
               /\ pc' = "exit"
               /\ Exit(EXIT_FAILURE)
               /\ UNCHANGED << threads, i >>
    /\ UNCHANGED << platform, cpus, numThreads, joined, handled, regFailed,
                    nsig, frames, out, dbg >>

\* Posix_pthread_create whose failure branch reports the failure and goes
\* on with the next slot instead of releasing the sequence and returning.
Posix_pthread_create_no_return ==
    /\ platform = "posix" /\ pc = "spawn" /\ i < numThreads /\ MainRuns
    /\ \E ok \in BOOLEAN :
          /\ IF ok
             THEN threads' = [ threads EXCEPT ![i] = "spin" ] /\ UNCHANGED err
             ELSE err' = Append(err, Line("Error creating thread", i))
                  /\ UNCHANGED threads
          /\ i' = i + 1
          /\ pc' = IF i + 1 < numThreads THEN "spawn" ELSE "announce"
    /\ UNCHANGED << platform, cpus, numThreads, heap, nfree, joined, stop,
                    handled, regFailed, nsig, frames, out, dbg, exited,
                    status >>

\* One iteration of the spawn loop: pthread_create(&threads[i], ...) and, when
\* it fails, the diagnostic, free(threads) and return EXIT_FAILURE.  The
\* iteration that spawns the last worker leaves the loop.
Posix_pthread_create ==
    /\ platform = "posix" /\ pc = "spawn" /\ i < numThreads /\ MainRuns
    /\ \E ok \in BOOLEAN :
          IF ok
          THEN /\ threads' = [ threads EXCEPT ![i] = "spin" ]
               /\ i' = i + 1
               /\ pc' = IF i + 1 < numThreads THEN "spawn" ELSE "announce"
               /\ UNCHANGED << err, heap, nfree, exited, status >>
          ELSE /\ err' = Append(err, Line("Error creating thread", i))
               /\ heap' = "freed"
               /\ nfree' = nfree + 1
               /\ pc' = "exit"
               /\ Exit(EXIT_FAILURE)
               /\ UNCHANGED << threads, i >>
    /\ UNCHANGED << platform, cpus, numThreads, joined, stop, handled,
                    regFailed, nsig, frames, out, dbg >>

\* fprintf(stdout, "Started %d worker threads\n", numThreads): main enters
\* the call ...
Posix_announce_begin ==
    /\ platform = "posix" /\ pc = "announce" /\ MainRuns
    /\ pc' = "announcing"
    /\ UNCHANGED << platform, cpus, numThreads, i, heap, nfree, threads,
                    joined, stop, handled, regFailed, nsig, frames, out, err,
                    dbg, exited, status >>

\* A main that leaves the fprintf of line 203 out and goes straight to the
\* join loop.
Posix_announce_end_silent ==
    /\ platform = "posix" /\ pc = "announcing" /\ MainRuns
    /\ pc' = "join"
    /\ i' = 0
    /\ UNCHANGED << platform, cpus, numThreads, heap, nfree, threads, joined,
                    stop, handled, regFailed, nsig, frames, out, err, dbg,
                    exited, status >>

\* ... and the call writes the line and returns; the join loop starts.
Posix_announce_end ==
    /\ platform = "posix" /\ pc = "announcing" /\ MainRuns
    /\ out' = Append(out, Line("Started", numThreads))
    /\ pc' = "join"
    /\ i' = 0
    /\ UNCHANGED << platform, cpus, numThreads, heap, nfree, threads, joined,
                    stop, handled, regFailed, nsig, frames, err, dbg, exited,
                    status >>

\* One iteration of the join loop: pthread_join(threads[i], NULL) returns once
\* worker i has returned.
Posix_pthread_join ==
    /\ platform = "posix" /\ pc = "join" /\ i < numThreads /\ MainRuns
    /\ threads[i] = "returned"
    /\ joined' = [ joined EXCEPT ![i] = @ + 1 ]
    /\ i' = i + 1
    /\ pc' = IF i + 1 < numThreads THEN "join" ELSE "free"
    /\ UNCHANGED << platform, cpus, numThreads, heap, nfree, threads, stop,
                    handled, regFailed, nsig, frames, out, err, dbg, exited,
                    status >>

\* A main that reports failure after its join loop.
Posix_free_return_failure ==
    /\ platform = "posix" /\ pc = "free" /\ MainRuns
    /\ heap' = "freed"
    /\ nfree' = nfree + 1
    /\ pc' = "exit"
    /\ Exit(EXIT_FAILURE)
    /\ UNCHANGED << platform, cpus, numThreads, i, threads, joined, stop,
                    handled, regFailed, nsig, frames, out, err, dbg >>

\* free(threads); return EXIT_SUCCESS;
Posix_free_return ==
    /\ platform = "posix" /\ pc = "free" /\ MainRuns
    /\ heap' = "freed"
    /\ nfree' = nfree + 1
    /\ pc' = "exit"
    /\ Exit(EXIT_SUCCESS)
    /\ UNCHANGED << platform, cpus, numThreads, i, threads, joined, stop,
                    handled, regFailed, nsig, frames, out, err, dbg >>

(* ------------------- POSIX implementation: workers -------------------- *)

\* A worker whose loop ends whatever the flag holds.
cpu_heater_ignores_flag(w) ==
    /\ platform = "posix" /\ ~exited
    /\ w \in Slots /\ threads[w] = "spin"
    /\ ~Suspended(w)
    /\ threads' = [ threads EXCEPT ![w] = "returned" ]
    /\ UNCHANGED << platform, cpus, numThreads, pc, i, heap, nfree, joined,
                    stop, handled, regFailed, nsig, frames, out, err, dbg,
                    exited, status >>

\* One evaluation of `while (!stop) {}` by worker w: it returns NULL when it
\* reads the flag set and goes round the loop otherwise.  stop is volatile,
\* so every evaluation is one load of the int the handler stores to.
cpu_heater(w) ==
    /\ platform = "posix" /\ ~exited
    /\ w \in Slots /\ threads[w] = "spin"
    /\ ~Suspended(w)
    /\ threads' = IF stop THEN [ threads EXCEPT ![w] = "returned" ] ELSE threads
    /\ UNCHANGED << platform, cpus, numThreads, pc, i, heap, nfree, joined,
                    stop, handled, regFailed, nsig, frames, out, err, dbg,
                    exited, status >>

(* ---------------- POSIX implementation: signal handler ---------------- *)

\* The thread t was interrupted inside fprintf on the stream the handler
\* writes to: main inside its Started line, or a handler invocation inside
\* its own line.
Reentrant(t) ==
    \/ t = MainThread /\ pc = "announcing"
    \/ \E j \in FramesOn(t) : frames[j].pc = "writing"

\* The kernel delivers sig to a thread of the process that does not block it;
\* that thread starts exit_handler(sig), whose first statement is
\* fprintf(stdout, "Received exit signal %d: Exiting...\n", signal).
\* fprintf is not async-signal-safe: entered on a thread that is already
\* inside it, the call may go on as usual, lose its output, or never return.
Posix_deliver(sig, t) ==
    /\ platform = "posix" /\ ~exited
    /\ nsig < MaxSignals /\ SignalsExplored
    /\ sig \in handled
    /\ \/ t = MainThread
       \/ t \in Slots /\ threads[t] = "spin"
    /\ ~Blocked(sig, t)
    /\ \E o \in (IF Reentrant(t) THEN {"writing", "set", "stalled"}
                                 ELSE {"writing"}) :
          frames' = Push(frames, [sig |-> sig, thread |-> t, pc |-> o])
    /\ nsig' = nsig + 1
    /\ UNCHANGED << platform, cpus, numThreads, pc, i, heap, nfree, threads,
                    joined, stop, handled, regFailed, out, err, dbg, exited,
                    status >>

\* fprintf returns: the line is on standard output, or the write failed.
exit_handler_fprintf_end(k) ==
    /\ platform = "posix" /\ ~exited
    /\ k \in 1..Len(frames) /\ frames[k].pc = "writing" /\ Innermost(k)
    /\ \E ok \in BOOLEAN :
          out' = IF ok THEN Append(out, Line("Received", frames[k].sig)) ELSE out
    /\ frames' = [ frames EXCEPT ![k].pc = "set" ]
    /\ UNCHANGED << platform, cpus, numThreads, pc, i, heap, nfree, threads,
                    joined, stop, handled, regFailed, nsig, err, dbg, exited,
                    status >>

\* exit_handler_stop that flips the flag instead of setting it.
exit_handler_stop_toggles(k) ==
    /\ platform = "posix" /\ ~exited
    /\ k \in 1..Len(frames) /\ frames[k].pc = "set" /\ Innermost(k)
    /\ stop' = ~stop
    /\ frames' = RemoveAt(frames, k)
    /\ UNCHANGED << platform, cpus, numThreads, pc, i, heap, nfree, threads,
                    joined, handled, regFailed, nsig, out, err, dbg, exited,
                    status >>

\* stop = 1; and the handler returns to what it interrupted.
exit_handler_stop(k) ==
    /\ platform = "posix" /\ ~exited
    /\ k \in 1..Len(frames) /\ frames[k].pc = "set" /\ Innermost(k)
    /\ stop' = TRUE
    /\ frames' = RemoveAt(frames, k)
    /\ UNCHANGED << platform, cpus, numThreads, pc, i, heap, nfree, threads,
                    joined, handled, regFailed, nsig, out, err, dbg, exited,
                    status >>

(* -------------------- Windows implementation: main -------------------- *)

\* stdOut = GetStdHandle(STD_OUTPUT_HANDLE); NULL or INVALID_HANDLE_VALUE is
\* reported to the debug sink and ends the process.
Win_GetStdHandle_out ==
    /\ platform = "windows" /\ pc = "get_stdout" /\ MainRuns
    /\ \E ok \in BOOLEAN :
          IF ok
          THEN pc' = "get_stderr" /\ UNCHANGED << dbg, exited, status >>
          ELSE /\ dbg' = Append(dbg, Line("ERROR: Failed to initialize standard output", 0))
               /\ pc' = "exit"
               /\ Exit(EXIT_FAILURE)
    /\ UNCHANGED << platform, cpus, numThreads, i, heap, nfree, threads,
                    joined, stop, handled, regFailed, nsig, frames, out,
                    err >>

\* stdErr = GetStdHandle(STD_ERROR_HANDLE); likewise.
Win_GetStdHandle_err ==
    /\ platform = "windows" /\ pc = "get_stderr" /\ MainRuns
    /\ \E ok \in BOOLEAN :
          IF ok
          THEN pc' = "set_handler" /\ UNCHANGED << dbg, exited, status >>
          ELSE /\ dbg' = Append(dbg, Line("ERROR: Failed to initialize standard error ouput", 0))
               /\ pc' = "exit"
               /\ Exit(EXIT_FAILURE)
    /\ UNCHANGED << platform, cpus, numThreads, i, heap, nfree, threads,
                    joined, stop, handled, regFailed, nsig, frames, out,
                    err >>

\* if (SetConsoleCtrlHandler(ExitHandler, TRUE) == FALSE) { ...; ExitProcess }
Win_SetConsoleCtrlHandler ==
    /\ platform = "windows" /\ pc = "set_handler" /\ MainRuns
    /\ \E ok \in BOOLEAN :
          IF ok
          THEN /\ handled' = {CTRL_C_EVENT, CTRL_CLOSE_EVENT}
               /\ pc' = "sysinfo"
               /\ UNCHANGED << regFailed, err, exited, status >>
          ELSE /\ regFailed' = {CTRL_C_EVENT, CTRL_CLOSE_EVENT}
               /\ err' = Append(err, Line("ERROR: Failed to set console ctrl handler", 0))
               /\ pc' = "exit"
               /\ Exit(EXIT_FAILURE)
               /\ UNCHANGED handled
    /\ UNCHANGED << platform, cpus, numThreads, i, heap, nfree, threads,
                    joined, stop, nsig, frames, out, dbg >>

\* GetSystemInfo(&sysinfo); numThreads = sysinfo.dwNumberOfProcessors;
\* if (numThreads <= 0) { ...; ExitProcess(EXIT_FAILURE); }
Win_GetSystemInfo ==
    /\ platform = "windows" /\ pc = "sysinfo" /\ MainRuns
    /\ numThreads' = cpus
    /\ IF cpus <= 0
       THEN /\ err' = Append(err, Line("ERROR: Failed to get number of processors", 0))
            /\ pc' = "exit"
            /\ Exit(EXIT_FAILURE)
       ELSE /\ pc' = "malloc"
            /\ UNCHANGED << err, exited, status >>
    /\ UNCHANGED << platform, cpus, i, heap, nfree, threads, joined, stop,
                    handled, regFailed, nsig, frames, out, dbg >>

\* threads = HeapAlloc(...); if (threads == NULL) { ...; ExitProcess }
Win_HeapAlloc ==
    /\ platform = "windows" /\ pc = "malloc" /\ MainRuns
    /\ \E ok \in BOOLEAN :
          IF ok
          THEN /\ heap' = "allocated"
               /\ threads' = [ s \in 0..(numThreads - 1) |-> "none" ]
               /\ joined' = [ s \in 0..(numThreads - 1) |-> 0 ]
               /\ pc' = "spawn"
               /\ i' = 0
               /\ UNCHANGED << err, exited, status >>
          ELSE /\ err' = Append(err, Line("ERROR: Failed to allocate memory for threads", 0))
               /\ pc' = "exit"
               /\ Exit(EXIT_FAILURE)
               /\ UNCHANGED << heap, threads, joined, i >>
    /\ UNCHANGED << platform, cpus, numThreads, nfree, stop, handled,
                    regFailed, nsig, frames, out, dbg >>

\* One iteration of the spawn loop: threads[i] = CreateThread(...) and, when
\* it is NULL, the diagnostic (with the index when it can be formatted),
\* HeapFree and ExitProcess(EXIT_FAILURE).
Win_CreateThread ==
    /\ platform = "windows" /\ pc = "spawn" /\ i < numThreads /\ MainRuns
    /\ \E ok \in BOOLEAN :
          IF ok
          THEN /\ threads' = [ threads EXCEPT ![i] = "spin" ]
               /\ i' = i + 1
               /\ pc' = IF i + 1 < numThreads THEN "spawn" ELSE "announce"
               /\ UNCHANGED << err, heap, nfree, exited, status >>
          ELSE /\ err' = Append(err,
                            IF StringCchPrintfA_OK(33, i)
                            THEN Line("ERROR: Failed to create thread", i)
                            ELSE Line("ERROR: Failed to create a thread", 0))
               /\ heap' = "freed"
               /\ nfree' = nfree + 1
               /\ pc' = "exit"
               /\ Exit(EXIT_FAILURE)
               /\ UNCHANGED << threads, i >>
    /\ UNCHANGED << platform, cpus, numThreads, joined, stop, handled,
                    regFailed, nsig, frames, out, dbg >>

\* The Started line: formatted with the count when that fits the buffer,
\* the fixed text otherwise, and written to stdOut.
Win_announce ==
    /\ platform = "windows" /\ pc = "announce" /\ MainRuns
    /\ out' = Append(out, IF StringCchPrintfA_OK(24, numThreads)
                          THEN Line("Started", numThreads)
                          ELSE Line("Started worker threads", 0))
    /\ pc' = "wait"
    /\ UNCHANGED << platform, cpus, numThreads, i, heap, nfree, threads,
                    joined, stop, handled, regFailed, nsig, frames, err, dbg,
                    exited, status >>

\* WaitForMultipleObjects(numThreads, threads, TRUE, INFINITE): a count above
\* MAXIMUM_WAIT_OBJECTS makes the call fail at once (its result is not
\* looked at); otherwise it returns when every worker has returned.
Win_WaitForMultipleObjects ==
    /\ platform = "windows" /\ pc = "wait" /\ MainRuns
    /\ IF numThreads > MAXIMUM_WAIT_OBJECTS
       THEN UNCHANGED joined
       ELSE /\ \A s \in Slots : threads[s] = "returned"
            /\ joined' = [ s \in Slots |-> joined[s] + 1 ]
    /\ pc' = "close"
    /\ i' = 0
    /\ UNCHANGED << platform, cpus, numThreads, heap, nfree, threads, stop,
                    handled, regFailed, nsig, frames, out, err, dbg, exited,
                    status >>

\* One iteration of the loop of CloseHandle(threads[i]).
Win_CloseHandle ==
    /\ platform = "windows" /\ pc = "close" /\ i < numThreads /\ MainRuns
    /\ i' = i + 1
    /\ pc' = IF i + 1 < numThreads THEN "close" ELSE "free"
    /\ UNCHANGED << platform, cpus, numThreads, heap, nfree, threads, joined,
                    stop, handled, regFailed, nsig, frames, out, err, dbg,
                    exited, status >>

\* HeapFree(GetProcessHeap(), 0, threads); return EXIT_SUCCESS;
Win_HeapFree_return ==
    /\ platform = "windows" /\ pc = "free" /\ MainRuns
    /\ heap' = "freed"
    /\ nfree' = nfree + 1
    /\ pc' = "exit"
    /\ Exit(EXIT_SUCCESS)
    /\ UNCHANGED << platform, cpus, numThreads, i, threads, joined, stop,
                    handled, regFailed, nsig, frames, out, err, dbg >>

(* ------------------ Windows implementation: workers ------------------- *)

\* One evaluation of `while (!stop) {}` by worker w.
CpuHeater(w) ==
    /\ platform = "windows" /\ ~exited
    /\ w \in Slots /\ threads[w] = "spin"
    /\ threads' = IF stop THEN [ threads EXCEPT ![w] = "returned" ] ELSE threads
    /\ UNCHANGED << platform, cpus, numThreads, pc, i, heap, nfree, joined,
                    stop, handled, regFailed, nsig, frames, out, err, dbg,
                    exited, status >>

(* ------------ Windows implementation: console control handler --------- *)

\* The system starts a new thread that runs ExitHandler(signal).
Win_deliver(sig) ==
    /\ platform = "windows" /\ ~exited
    /\ nsig < MaxSignals /\ SignalsExplored
    /\ sig \in handled
    /\ frames' = Append(frames, [sig |-> sig, thread |-> OwnThread, pc |-> "write"])
    /\ nsig' = nsig + 1
    /\ UNCHANGED << platform, cpus, numThreads, pc, i, heap, nfree, threads,
                    joined, stop, handled, regFailed, out, err, dbg, exited,
                    status >>

\* StringCchPrintfA and WriteConsoleA(stdErr, ...): the line names the signal
\* when the formatting succeeded; the write itself may fail.
ExitHandler_WriteConsoleA(k) ==
    /\ platform = "windows" /\ ~exited
    /\ k \in 1..Len(frames) /\ frames[k].pc = "write" /\ Innermost(k)
    /\ \E ok \in BOOLEAN :
          err' = IF ~ok THEN err
                 ELSE Append(err, IF StringCchPrintfA_OK(34, frames[k].sig)
                                  THEN Line("Received", frames[k].sig)
                                  ELSE Line("Received exit signal", 0))
    /\ frames' = [ frames EXCEPT ![k].pc = "set" ]
    /\ UNCHANGED << platform, cpus, numThreads, pc, i, heap, nfree, threads,
                    joined, stop, handled, regFailed, nsig, out, dbg, exited,
                    status >>

\* stop = TRUE; return TRUE;
ExitHandler_stop(k) ==
    /\ platform = "windows" /\ ~exited
    /\ k \in 1..Len(frames) /\ frames[k].pc = "set" /\ Innermost(k)
    /\ stop' = TRUE
    /\ frames' = RemoveAt(frames, k)
    /\ UNCHANGED << platform, cpus, numThreads, pc, i, heap, nfree, threads,
                    joined, handled, regFailed, nsig, out, err, dbg, exited,
                    status >>

(* -------------------------- the whole program ------------------------- *)

PosixNext ==
    \/ Posix_sysconf
    \/ Posix_signal_SIGINT
    \/ Posix_signal_SIGTERM
    \/ Posix_check_count
    \/ Posix_malloc
    \/ Posix_pthread_create
    \/ Posix_announce_begin
    \/ Posix_announce_end
    \/ Posix_pthread_join
    \/ Posix_free_return
    \/ \E w \in Slots : cpu_heater(w)
    \/ \E sig \in {SIGINT, SIGTERM} :
          \E t \in {MainThread} \cup Slots : Posix_deliver(sig, t)
    \/ \E k \in 1..Len(frames) : exit_handler_fprintf_end(k)
    \/ \E k \in 1..Len(frames) : exit_handler_stop(k)

WinNext ==
    \/ Win_GetStdHandle_out
    \/ Win_GetStdHandle_err
    \/ Win_SetConsoleCtrlHandler
    \/ Win_GetSystemInfo
    \/ Win_HeapAlloc
    \/ Win_CreateThread
    \/ Win_announce
    \/ Win_WaitForMultipleObjects
    \/ Win_CloseHandle
    \/ Win_HeapFree_return
    \/ \E w \in Slots : CpuHeater(w)
    \/ \E sig \in {CTRL_C_EVENT, CTRL_CLOSE_EVENT} : Win_deliver(sig)
    \/ \E k \in 1..Len(frames) : ExitHandler_WriteConsoleA(k)
    \/ \E k \in 1..Len(frames) : ExitHandler_stop(k)

Next == PosixNext \/ WinNext

Spec == Init /\ [][Next]_vars

(* ------------------------------ fairness ------------------------------ *)

\* Every thread that can run does run: main, each worker and each handler
\* invocation keep taking their steps.  Nothing obliges the environment to
\* deliver a signal.
MainFair ==
    /\ WF_vars(Posix_sysconf) /\ WF_vars(Posix_signal_SIGINT)
    /\ WF_vars(Posix_signal_SIGTERM) /\ WF_vars(Posix_check_count)
    /\ WF_vars(Posix_malloc) /\ WF_vars(Posix_pthread_create)
    /\ WF_vars(Posix_announce_begin) /\ WF_vars(Posix_announce_end)
    /\ WF_vars(Posix_pthread_join) /\ WF_vars(Posix_free_return)
    /\ WF_vars(Win_GetStdHandle_out) /\ WF_vars(Win_GetStdHandle_err)
    /\ WF_vars(Win_SetConsoleCtrlHandler) /\ WF_vars(Win_GetSystemInfo)
    /\ WF_vars(Win_HeapAlloc) /\ WF_vars(Win_CreateThread)
    /\ WF_vars(Win_announce) /\ WF_vars(Win_WaitForMultipleObjects)
    /\ WF_vars(Win_CloseHandle) /\ WF_vars(Win_HeapFree_return)

WorkerFair ==
    \A w \in 0..(MaxThreads - 1) :
        WF_vars(cpu_heater(w)) /\ WF_vars(CpuHeater(w))

HandlerFair ==
    \A k \in 1..MaxSignals :
        /\ WF_vars(exit_handler_fprintf_end(k))
        /\ WF_vars(exit_handler_stop(k))
        /\ WF_vars(ExitHandler_WriteConsoleA(k))
        /\ WF_vars(ExitHandler_stop(k))

FairSpec == Spec /\ MainFair /\ WorkerFair /\ HandlerFair

(* ------------------------------- claims ------------------------------- *)

\* C1: once the handler has written the stop flag, every spawned worker that
\* is still spinning leaves its loop at its next evaluation of the loop
\* condition, and so, the threads being scheduled fairly, every worker
\* eventually returns (for as long as the process lives).
C1_WorkersReturnOnceStopped ==
    \A w \in 0..(MaxThreads - 1) :
        [](stop /\ Worker(w) = "spin"
             => <>(exited \/ Worker(w) = "returned"))

\* The Started line is on standard output.
Started == \E n \in 1..Len(out) : out[n].kind \in {"Started", "Started worker threads"}

\* C2: once the Started line is out, the process terminates only with status
\* zero, only after a stop signal was delivered and the handler set the
\* flag, and only with every one of the N workers returned and joined; with
\* no stop signal delivered it does not terminate.
C2_ExitZeroIffStoppedAndJoined ==
    Started /\ exited
        => /\ status = EXIT_SUCCESS
           /\ nsig > 0 /\ stop
           /\ \A s \in Slots : threads[s] = "returned" /\ joined[s] = 1

\* C3: for every probed count N >= 1 there are never more than N workers and
\* no worker is joined twice, and a supervisor that has run to its end has
\* spawned all N workers and joined each of them exactly once.
C3_SpawnsNJoinsEachOnce ==
    /\ Slots # {} => Slots = 0..(numThreads - 1)
    /\ \A s \in Slots : joined[s] <= 1
    /\ exited /\ status = EXIT_SUCCESS
          => /\ Slots = 0..(numThreads - 1)
             /\ \A s \in Slots : threads[s] # "none" /\ joined[s] = 1

\* C4: the stop flag starts false and no step of any thread takes it from
\* true back to false.
C4_StopMonotonic == ~stop /\ [][stop => stop']_vars

\* C4 witness: the flag is true and signals, worker steps and supervisor
\* steps have gone on after it became true.
C4_Witness ==
    /\ stop /\ nsig >= 2 /\ exited
    /\ \E s \in Slots : threads[s] = "returned"

SpawnFailed ==
    \E n \in 1..Len(err) :
        err[n].kind \in {"Error creating thread", "ERROR: Failed to create thread",
                         "ERROR: Failed to create a thread"}

\* C5: a stop signal delivered while the spawn phase is still going on does
\* not hang the process: unless a spawn fails, it goes on to exit with
\* status zero.
C5_EarlySignalNoHang ==
    [](pc = "spawn" /\ nsig > 0
         => <>(exited /\ (status = EXIT_SUCCESS \/ SpawnFailed)))

\* C6: every invocation of the handler, whatever it interrupted, goes on to
\* set the stop flag and to return (for as long as the process lives).
C6_HandlerSetsFlagAndReturns ==
    [](frames # << >> => <>(exited \/ (stop /\ frames = << >>)))

\* C7: when the CPU-count probe answers zero or less, main never gets past
\* its check of the count: nothing is allocated, no worker exists, no Started
\* line is written, and main ends with a nonzero status.
C7_NoCpusNoWorkers ==
    cpus <= 0
        => /\ Slots = {} /\ heap = "none" /\ ~Started
           /\ pc \in {"sysconf", "signal_int", "signal_term", "check",
                      "get_stdout", "get_stderr", "set_handler", "sysinfo",
                      "exit"}
           /\ pc = "exit" => exited /\ status # EXIT_SUCCESS

\* C7 witness: the probe answered zero or less and main has reported it and
\* ended.
C7_Witness ==
    /\ cpus <= 0 /\ numThreads = cpus /\ exited
    /\ \E n \in 1..Len(err) :
          err[n].kind \in {"Error getting the number of processors",
                           "ERROR: Failed to get number of processors"}

\* C8: when spawning worker k has failed, the process has ended with a nonzero
\* status at that k: no slot from k on holds a worker, no join was done on
\* any slot and no Started line was written.
C8_SpawnFailureAborts ==
    SpawnFailed
        => /\ exited /\ status # EXIT_SUCCESS
           /\ \A s \in Slots : joined[s] = 0
           /\ \A s \in Slots : s >= i => threads[s] = "none"
           /\ \A s \in Slots : s < i => threads[s] # "none"
           /\ \A n \in 1..Len(err) :
                 err[n].kind \in {"Error creating thread",
                                  "ERROR: Failed to create thread"} => err[n].n = i
           /\ ~Started

\* C8 witness: the spawn of a worker other than the first failed, with the
\* earlier workers running, and the process has ended.
C8_Witness ==
    /\ SpawnFailed /\ exited /\ i >= 1 /\ i < numThreads
    /\ \A s \in Slots : s < i => threads[s] = "spin"

\* C9: a failed handler registration ends main before any worker is spawned:
\* the spawn phase is never reached with a registration that failed.
C9_NoSpawnAfterFailedRegistration ==
    regFailed # {}
        => /\ \A s \in Slots : threads[s] = "none"
           /\ pc \notin {"spawn", "announce", "announcing", "join", "wait",
                         "close", "free"}

\* C10: standard output carries nothing but the one Started line, and every
\* Received exit signal line of the handler is on standard error.
C10_ChannelsSeparated ==
    /\ Len(out) <= 1
    /\ \A n \in 1..Len(out) :
          out[n].kind \in {"Started", "Started worker threads"}

\* Number of Received exit signal lines written so far, on either stream.
ReceivedLines ==
    Cardinality({ n \in 1..Len(out) :
                    out[n].kind \in {"Received", "Received exit signal"} })
    + Cardinality({ n \in 1..Len(err) :
                    err[n].kind \in {"Received", "Received exit signal"} })

\* C11: a further stop signal leaves the flag as the first one set it (true
\* stays true), no delivery writes more than one Received exit signal line,
\* and a run that has announced its workers and received two stop signals
\* still goes on to exit with status zero.
C11_SecondSignalIdempotent ==
    /\ [][stop => stop']_vars
    /\ [](ReceivedLines <= nsig)
    /\ [](Started /\ nsig >= 2 => <>(exited /\ status = EXIT_SUCCESS))

\* C12: from the running state (all workers spawned, Started line written),
\* once a stop signal has been delivered the supervisor goes on to join
\* every worker, release the handle sequence and exit with status zero.
C12_NormalShutdownLive ==
    [](Started /\ nsig > 0
         => <>(/\ exited /\ status = EXIT_SUCCESS
               /\ heap = "freed"
               /\ \A s \in Slots : joined[s] = 1))

\* C13: on Windows the supervisor gets past its single wait (closing the
\* worker handles, freeing the handle sequence, returning success) only when
\* every one of the N workers has returned, for every processor count the
\* probe can return.
C13_WinWaitCoversAllWorkers ==
    platform = "windows"
      /\ (pc \in {"close", "free"} \/ (exited /\ status = EXIT_SUCCESS))
      => \A s \in Slots : threads[s] = "returned"

\* Number of Started lines on standard output.
StartedLines ==
    Cardinality({ n \in 1..Len(out) :
                    out[n].kind \in {"Started", "Started worker threads"} })

\* C14: the Started line is written at most once, only when all N workers
\* have been spawned, and before main begins waiting for any worker: with
\* no Started line main is not in its join or wait phase or beyond and no
\* worker has been joined.
C14_StartedAfterSpawnsBeforeJoin ==
    /\ StartedLines <= 1
    /\ Started => /\ numThreads >= 1
                  /\ Slots = 0..(numThreads - 1)
                  /\ \A s \in Slots : threads[s] # "none"
                  /\ pc \in {"join", "wait", "close", "free", "exit"}
    /\ ~Started => /\ pc \notin {"join", "wait", "close", "free"}
                   /\ \A s \in Slots : joined[s] = 0
                   /\ ~(exited /\ status = EXIT_SUCCESS)

\* C14 witness: the Started line is out, every worker is spawned and main is
\* at its first join or in its wait, with no worker joined yet.
C14_Witness ==
    /\ StartedLines = 1 /\ numThreads >= 2
    /\ pc \in {"join", "wait"} /\ i = 0
    /\ \A s \in Slots : threads[s] = "spin" /\ joined[s] = 0

\* C15: a worker that has returned has read the flag set: every returned
\* worker implies the flag is true, so while the flag is false every spawned
\* worker is still in its loop; and a worker returns once, a returned worker
\* stays returned.
C15_WorkerReturnsOnlyOnStop ==
    /\ [](\A s \in Slots : threads[s] = "returned" => stop)
    /\ [](~stop => \A s \in Slots : threads[s] \in {"none", "spin"})
    /\ [][\A s \in Slots : threads[s] = "returned"
              => s \in DOMAIN threads' /\ threads'[s] = "returned"]_vars

\* C15 witness: with the flag set one worker has returned while another is
\* still in its loop.
C15_Witness ==
    /\ stop
    /\ \E s, t \in Slots : threads[s] = "returned" /\ threads[t] = "spin"

\* C16: the handler is the only writer of the flag: every step that changes
\* the flag is the store of a handler invocation, which then returns, and
\* leaves main's and the workers' state as it was; so no spawn, announce,
\* join, release, failure-path or worker step changes the flag.
C16_OnlyHandlerWritesStop ==
    [][stop' # stop
         => /\ \E k \in 1..Len(frames) :
                  frames[k].pc = "set" /\ frames' = RemoveAt(frames, k)
            /\ UNCHANGED << pc, i, heap, nfree, threads, joined, out, err,
                            dbg, exited, status >>]_vars

\* C16 witness: a stop signal has been delivered and its handler has not
\* stored to the flag yet; main's spawn-failure path has run to its end,
\* leaving a spawned worker in its loop, and the flag is still false.
C16_Witness ==
    /\ SpawnFailed /\ exited /\ status = EXIT_FAILURE
    /\ nsig >= 1 /\ frames # << >> /\ ~stop
    /\ \E s \in Slots : threads[s] = "spin"

\* C17: the handle sequence is released exactly once on every path that
\* allocated it and never otherwise: it is never released twice, never
\* released without an allocation, a main that ended after allocating
\* has released it once, and on the success path the release comes only
\* after every worker has been joined.
C17_HandlesReleasedExactlyOnce ==
    /\ nfree <= 1
    /\ heap = "none" => nfree = 0
    /\ heap = "freed" <=> nfree = 1
    /\ pc = "exit" /\ heap # "none" => nfree = 1
    /\ nfree = 1 /\ ~SpawnFailed
          => /\ Slots = 0..(numThreads - 1)
             /\ \A s \in Slots : threads[s] = "returned" /\ joined[s] = 1

\* The state of the process as a whole: Starting until every worker is
\* spawned, then Running until the flag is set, then Draining until main
\* returns; a main that has ended is Exited when its status is zero and
\* Failed otherwise.
Phase ==
    IF exited
    THEN IF status = EXIT_SUCCESS THEN "Exited" ELSE "Failed"
    ELSE IF pc \in {"announce", "announcing", "join", "wait", "close", "free"}
         THEN IF stop THEN "Draining" ELSE "Running"
         ELSE "Starting"

Rank(ph) ==
    CASE ph = "Starting" -> 0
      [] ph = "Running"  -> 1
      [] ph = "Draining" -> 2
      [] ph = "Exited"   -> 3
      [] ph = "Failed"   -> 3

\* C18: a process that has written the Started line never ends with a
\* nonzero status, whatever stop signals are delivered and however they
\* interleave, and every nonzero end comes with no Started line written;
\* the process state never moves backward along Starting, Running,
\* Draining, Exited, it fails only out of Starting, and Exited and Failed
\* are final.
C18_FailureOnlyBeforeStarted ==
    /\ [](Started /\ exited => status = EXIT_SUCCESS)
    /\ [](exited /\ status # EXIT_SUCCESS => ~Started /\ Phase = "Failed")
    /\ [][/\ Rank(Phase') >= Rank(Phase)
          /\ Phase' = "Failed" => Phase \in {"Starting", "Failed"}
          /\ Phase \in {"Exited", "Failed"} => Phase' = Phase]_vars

\* C18 witness: two handler invocations wrote their line after the Started
\* line and the process has ended with status zero.
C18_Witness ==
    /\ Len(out) >= 3 /\ out[1].kind = "Started"
    /\ nsig >= 2 /\ stop
    /\ exited /\ status = EXIT_SUCCESS

====
